---------------------------- MODULE Spec2Model ----------------------------
(***************************************************************************)
(* Model of the IoT sensor data collector: the Cassandra table            *)
(* iot_data.sensor_readings, the write path of data_generator.py, the     *)
(* read path of query_analysis.py, the generator process main loop, the   *)
(* connection and schema calls of db_connection.py and schema_setup.py,   *)
(* two writer processes racing on one key, and the reruns of the          *)
(* Streamlit script dashboard.py.                                         *)
(*                                                                         *)
(* Conventions.  A device id 'device_<n>' is the integer n (for n < 10    *)
(* Python's string order on these ids is the order of n).  A Python       *)
(* datetime is an integer number of microseconds; a CQL TIMESTAMP is an   *)
(* integer number of milliseconds.  A sensor value is an integer number   *)
(* of hundredths (the generator rounds to 2 decimal places).              *)
(***************************************************************************)
EXTENDS Integers, Sequences, FiniteSets, TLC

VARIABLES
    table,      \* the rows of iot_data.sensor_readings
    call,       \* the last call made on the client interface, with its arguments
    ret,        \* the value that call returned
    failed,     \* whether that call took a "no session" or "except" path
    contacts,   \* how many times that call invoked session.prepare/execute
    old,        \* the rows stored under the written key before that call
    \* the generator process (data_generator.py)
    pc,             \* where main is
    running,        \* global running
    main_session,   \* global session
    cluster,        \* global cluster
    prepared_insert,\* global prepared_insert
    handle,         \* the Cluster object: "absent", "open" or "shutdown"
    shutdowns,      \* invocations of cluster.shutdown()
    prepares,       \* invocations of prepare_insert_statement
    reading_count,  \* main's reading_count
    successes,      \* insert_sensor_reading calls that returned True
    sweep_timestamp,\* generate_and_insert_data's timestamp
    attempts,       \* the inserts attempted in the sweeps so far
    late_inserts,   \* inserts attempted after the handle was shut down
    now,            \* the clock, in microseconds
    signals,        \* signals delivered
    exit_code,      \* the status passed to sys.exit, 0 when none was
    \* the schema of the store
    keyspaces,      \* the rows of system_schema.keyspaces
    tables,         \* the rows of system_schema.tables
    repeated,       \* the last call repeats, with the same arguments, the
                    \* successful call before it
    \* concurrent writer processes
    writers,        \* per writer: where its insert_sensor_reading call is,
                    \* the mutation it sends and the value it returned
    \* the dashboard process (dashboard.py)
    cache,                  \* the st.cache_resource entry of get_db_session
    reruns,                 \* runs of the script so far
    selected_device,        \* main's selected_device, 0 before the selectbox
    selected_sensor_type    \* main's selected_sensor_type

storeVars == <<table, call, ret, failed, contacts, old>>
genVars == <<pc, running, main_session, cluster, prepared_insert, handle,
             shutdowns, prepares, reading_count, successes, sweep_timestamp,
             attempts, late_inserts, now, signals, exit_code>>
schemaVars == <<keyspaces, tables, repeated>>
dashVars == <<cache, reruns, selected_device, selected_sensor_type>>
vars == <<storeVars, genVars, schemaVars, writers, dashVars>>

---------------------------------------------------------------------------
(* Bounds of the model and input domains                                   *)

MaxRows == 3                      \* rows the table may hold
MaxLimit == 3                     \* largest limit passed to get_recent_readings

DeviceInputs == {1, 2}
TypeInputs == {"temperature", "motion"}
\* (sensor_type, sensor_value) pairs written: 10.00, 20.01 and motion 1
ReadingInputs == {<<"temperature", 1000>>, <<"temperature", 2001>>, <<"motion", 100>>}
\* datetimes in microseconds: 1000 and 1500 fall in the same millisecond
TimeInputs == {1000, 1500, 2000}
LimitInputs == (-1)..MaxLimit

---------------------------------------------------------------------------
(* Python values                                                           *)

None == [type |-> "NoneType"]
Session == [type |-> "Session"]
PreparedStatement == [type |-> "PreparedStatement"]
Float(v) == [type |-> "float", value |-> v]
True == [type |-> "bool", truth |-> TRUE]
False == [type |-> "bool", truth |-> FALSE]
List(items) == [type |-> "list", items |-> items]
Cluster == [type |-> "Cluster"]
\* the pair (session, cluster) that get_session and setup_schema return
Tuple(session, cluster_) == [type |-> "tuple", session |-> session, cluster |-> cluster_]

Columns == <<"device_id", "timestamp", "sensor_type", "sensor_value">>
\* pd.DataFrame(rows) / pd.DataFrame(columns=...) / pd.DataFrame()
DataFrame(cols, rows) == [columns |-> cols, rows |-> rows]

Min(a, b) == IF a <= b THEN a ELSE b

---------------------------------------------------------------------------
(* The store: table sensor_readings, PRIMARY KEY (device_id, timestamp),  *)
(* CLUSTERING ORDER BY (timestamp DESC)                                    *)

PartitionKey == {"device_id"}
ClusteringKey == {"timestamp"}
PrimaryKey == PartitionKey \cup ClusteringKey

MicrosPerMilli == 1000
\* a datetime bound to a TIMESTAMP column keeps whole milliseconds
ToTimestamp(datetime) == datetime \div MicrosPerMilli
\* a TIMESTAMP column read back as a datetime
FromTimestamp(ts) == ts * MicrosPerMilli

Row(device_id, ts, sensor_type, sensor_value) ==
    [device_id |-> device_id, timestamp |-> ts,
     sensor_type |-> sensor_type, sensor_value |-> sensor_value]

SameKey(r, device_id, ts) == r.device_id = device_id /\ r.timestamp = ts

\* INSERT appends a second row under an existing primary key
InsertRowAppend(tbl, device_id, datetime, sensor_type, sensor_value) ==
    tbl \cup {Row(device_id, ToTimestamp(datetime), sensor_type, sensor_value)}

\* INSERT replaces the whole partition of the device by the row written
InsertRowReplacePartition(tbl, device_id, datetime, sensor_type, sensor_value) ==
    {r \in tbl : r.device_id # device_id}
        \cup {Row(device_id, ToTimestamp(datetime), sensor_type, sensor_value)}

\* INSERT INTO sensor_readings (...) VALUES (?, ?, ?, ?): an upsert on the
\* primary key
InsertRow(tbl, device_id, datetime, sensor_type, sensor_value) ==
    {r \in tbl : ~SameKey(r, device_id, ToTimestamp(datetime))}
        \cup {Row(device_id, ToTimestamp(datetime), sensor_type, sensor_value)}

Partition(tbl, device_id) == {r \in tbl : r.device_id = device_id}

\* the rows of a partition in ascending clustering order
RECURSIVE AscendingOrder(_)
AscendingOrder(rows) ==
    IF rows = {} THEN <<>>
    ELSE LET r == CHOOSE x \in rows : \A y \in rows : x.timestamp <= y.timestamp
         IN  <<r>> \o AscendingOrder(rows \ {r})

\* the rows of a partition as stored: newest first
RECURSIVE ClusteringOrder(_)
ClusteringOrder(rows) ==
    IF rows = {} THEN <<>>
    ELSE LET r == CHOOSE x \in rows : \A y \in rows : y.timestamp <= x.timestamp
         IN  <<r>> \o ClusteringOrder(rows \ {r})

\* the last n rows of the partition instead of the first n
TakeLast(s, n) == SubSeq(s, Len(s) - Min(n, Len(s)) + 1, Len(s))

\* LIMIT n: the first n rows of the result
Take(s, n) == SubSeq(s, 1, Min(n, Len(s)))

\* a WHERE clause on a column outside the primary key, with no index on it,
\* needs ALLOW FILTERING; the store rejects the statement otherwise
StoreAcceptsWhere(columns, allowFiltering) ==
    columns \subseteq PrimaryKey \/ allowFiltering

\* LIMIT must be strictly positive
StoreAcceptsLimit(limit) == limit > 0

---------------------------------------------------------------------------
(* data_generator.py: the write path                                       *)

\* the result of one call: the returned value, the table afterwards, the
\* number of session.prepare/execute invocations, whether a failure path ran
Outcome(value, tbl, n, fail) ==
    [ret |-> value, table |-> tbl, contacts |-> n, failed |-> fail]

\* retries the execute once when it raises, and reports the second result
insert_sensor_reading_retry(tbl, session, prepared_statement, device_id, timestamp, sensor_type, sensor_value, raises) ==
    IF session = None \/ prepared_statement = None
    THEN Outcome(False, tbl, 0, TRUE)
    ELSE IF raises
         THEN Outcome(True, InsertRow(tbl, device_id, timestamp, sensor_type, sensor_value), 2, FALSE)
         ELSE Outcome(True, InsertRow(tbl, device_id, timestamp, sensor_type, sensor_value), 1, FALSE)

\* raises: session.execute raises (store unreachable, value rejected, ...)
insert_sensor_reading(tbl, session, prepared_statement, device_id, timestamp, sensor_type, sensor_value, raises) ==
    IF session = None \/ prepared_statement = None
    THEN Outcome(False, tbl, 0, TRUE)
    ELSE IF raises
         THEN Outcome(False, tbl, 1, TRUE)
         ELSE Outcome(True, InsertRow(tbl, device_id, timestamp, sensor_type, sensor_value), 1, FALSE)

---------------------------------------------------------------------------
(* query_analysis.py: the read path                                        *)

\* SELECT ... WHERE device_id = ? ORDER BY timestamp DESC LIMIT ?
SelectRecent(tbl, device_id, limit) ==
    Take(ClusteringOrder(Partition(tbl, device_id)), limit)

\* a row object of the driver as the dictionary appended to rows
RowDict(r) ==
    Row(r.device_id, FromTimestamp(r.timestamp), r.sensor_type, r.sensor_value)

get_recent_readings(tbl, session, device_id, limit, raises) ==
    IF session = None
    THEN Outcome(DataFrame(<<>>, <<>>), tbl, 0, TRUE)
    ELSE IF raises
         THEN Outcome(DataFrame(<<>>, <<>>), tbl, 1, TRUE)
         ELSE IF ~StoreAcceptsLimit(limit)
              THEN Outcome(DataFrame(<<>>, <<>>), tbl, 2, TRUE)
              ELSE LET result == SelectRecent(tbl, device_id, limit)
                       rows == [i \in 1..Len(result) |-> RowDict(result[i])]
                   IN  IF rows # <<>>
                       THEN Outcome(DataFrame(Columns, rows), tbl, 2, FALSE)
                       ELSE Outcome(DataFrame(Columns, <<>>), tbl, 2, FALSE)

RECURSIVE SumValues(_)
SumValues(rows) ==
    IF rows = {} THEN 0
    ELSE LET r == CHOOSE x \in rows : TRUE
         IN  r.sensor_value + SumValues(rows \ {r})

\* round(total / n, 2) on hundredths: the nearest hundredth, a tie to even
Round2(total, n) ==
    LET q == total \div n
        r == total % n
    IN  IF 2 * r < n THEN q
        ELSE IF 2 * r > n THEN q + 1
        ELSE IF q % 2 = 0 THEN q ELSE q + 1

\* SELECT sensor_value ... WHERE device_id = ? AND sensor_type = ?
AverageWhere == {"device_id", "sensor_type"}
AverageAllowFiltering == FALSE

SelectValues(tbl, device_id, sensor_type) ==
    {r \in Partition(tbl, device_id) : r.sensor_type = sensor_type}

\* reports 0.0 instead of None on the failure and no-data paths
get_average_value_zero(tbl, session, device_id, sensor_type, raises) ==
    IF session = None
    THEN Outcome(None, tbl, 0, TRUE)
    ELSE IF raises \/ ~StoreAcceptsWhere(AverageWhere, AverageAllowFiltering)
         THEN Outcome(Float(0), tbl, 1, TRUE)
         ELSE LET values == SelectValues(tbl, device_id, sensor_type)
              IN  IF values = {}
                  THEN Outcome(Float(0), tbl, 2, FALSE)
                  ELSE Outcome(Float(Round2(SumValues(values), Cardinality(values))), tbl, 2, FALSE)

get_average_value(tbl, session, device_id, sensor_type, raises) ==
    IF session = None
    THEN Outcome(None, tbl, 0, TRUE)
    ELSE IF raises \/ ~StoreAcceptsWhere(AverageWhere, AverageAllowFiltering)
         THEN Outcome(None, tbl, 1, TRUE)
         ELSE LET values == SelectValues(tbl, device_id, sensor_type)
              IN  IF values = {}
                  THEN Outcome(None, tbl, 2, FALSE)
                  ELSE Outcome(Float(Round2(SumValues(values), Cardinality(values))), tbl, 2, FALSE)

\* SELECT DISTINCT device_id: one entry per partition
DistinctDevices(tbl) == {r.device_id : r \in tbl}

\* the orders in which the store may return a set of partitions
Orders(S) == {s \in [1..Cardinality(S) -> S] : \A i, j \in DOMAIN s : i # j => s[i] # s[j]}

RECURSIVE Insert(_, _)
Insert(s, x) ==
    IF s = <<>> THEN <<x>>
    ELSE IF x <= Head(s) THEN <<x>> \o s
    ELSE <<Head(s)>> \o Insert(Tail(s), x)

\* sorted(device_ids)
RECURSIVE sorted(_)
sorted(s) == IF s = <<>> THEN <<>> ELSE Insert(sorted(Tail(s)), Head(s))

\* returns the ids in the order the store gave them
get_all_devices_unsorted(tbl, session, device_ids, raises) ==
    IF session = None
    THEN Outcome(List(<<>>), tbl, 0, TRUE)
    ELSE IF raises
         THEN Outcome(List(<<>>), tbl, 1, TRUE)
         ELSE Outcome(List(device_ids), tbl, 1, FALSE)

\* device_ids: the result of the SELECT DISTINCT in the order the store
\* returns it
get_all_devices(tbl, session, device_ids, raises) ==
    IF session = None
    THEN Outcome(List(<<>>), tbl, 0, TRUE)
    ELSE IF raises
         THEN Outcome(List(<<>>), tbl, 1, TRUE)
         ELSE Outcome(List(sorted(device_ids)), tbl, 1, FALSE)

---------------------------------------------------------------------------
(* db_connection.py and schema_setup.py: keyspace and table                *)

KEYSPACE_NAME == "iot_data"
TABLE_NAME == "sensor_readings"

\* SimpleStrategy takes any non-negative replication_factor
StoreAcceptsReplication(replication_factor) == replication_factor >= 0

\* SELECT keyspace_name FROM system_schema.keyspaces WHERE keyspace_name = %s
SelectKeyspace(kss, keyspace_name) == {k \in kss : k.keyspace_name = keyspace_name}

\* CREATE KEYSPACE IF NOT EXISTS ... WITH REPLICATION = {'class':
\* 'SimpleStrategy', 'replication_factor': ...}
CreateKeyspace(kss, keyspace_name, replication_factor) ==
    IF SelectKeyspace(kss, keyspace_name) # {} THEN kss
    ELSE kss \cup {[keyspace_name |-> keyspace_name, class |-> "SimpleStrategy",
                    replication_factor |-> replication_factor]}

\* the result of one schema call: the returned value, the schema afterwards
\* and the number of session.execute invocations
SchemaOutcome(value, kss, tbls, n) ==
    [ret |-> value, keyspaces |-> kss, tables |-> tbls, contacts |-> n]

\* issues CREATE KEYSPACE without looking for the keyspace first; the store
\* raises AlreadyExists on an existing keyspace
create_keyspace_unchecked(kss, tbls, session, keyspace_name, replication_factor, raises_select, raises_create) ==
    IF session = None
    THEN SchemaOutcome(False, kss, tbls, 0)
    ELSE IF \/ raises_create
            \/ SelectKeyspace(kss, keyspace_name) # {}
            \/ ~StoreAcceptsReplication(replication_factor)
         THEN SchemaOutcome(False, kss, tbls, 1)
         ELSE SchemaOutcome(True, CreateKeyspace(kss, keyspace_name, replication_factor), tbls, 1)

\* raises_select, raises_create: the SELECT, the CREATE raises (store
\* unreachable)
create_keyspace_if_not_exists(kss, tbls, session, keyspace_name, replication_factor, raises_select, raises_create) ==
    IF session = None
    THEN SchemaOutcome(False, kss, tbls, 0)
    ELSE IF raises_select
         THEN SchemaOutcome(False, kss, tbls, 1)
         ELSE IF SelectKeyspace(kss, keyspace_name) # {}
              THEN SchemaOutcome(True, kss, tbls, 1)
              ELSE IF raises_create \/ ~StoreAcceptsReplication(replication_factor)
                   THEN SchemaOutcome(False, kss, tbls, 2)
                   ELSE SchemaOutcome(True, CreateKeyspace(kss, keyspace_name, replication_factor), tbls, 2)

\* SELECT table_name FROM system_schema.tables WHERE keyspace_name = %s AND
\* table_name = %s
SelectTable(tbls, keyspace_name, table_name) ==
    {t \in tbls : t.keyspace_name = keyspace_name /\ t.table_name = table_name}

table_exists(tbls, session, keyspace_name, table_name, raises) ==
    IF session = None THEN FALSE
    ELSE IF raises THEN FALSE
    ELSE SelectTable(tbls, keyspace_name, table_name) # {}

\* the table as create_table defines it
TableDefinition(keyspace_name, table_name) ==
    [keyspace_name |-> keyspace_name, table_name |-> table_name,
     columns |-> Columns, partition_key |-> PartitionKey,
     clustering_key |-> ClusteringKey, clustering_order |-> "DESC"]

\* CREATE TABLE IF NOT EXISTS keyspace.table (...)
CreateTable(tbls, keyspace_name, table_name) ==
    IF SelectTable(tbls, keyspace_name, table_name) # {} THEN tbls
    ELSE tbls \cup {TableDefinition(keyspace_name, table_name)}

\* the store rejects CREATE TABLE in a keyspace that does not exist
create_table(kss, tbls, session, keyspace_name, table_name, raises_select, raises_create) ==
    IF session = None
    THEN SchemaOutcome(False, kss, tbls, 0)
    ELSE IF table_exists(tbls, session, keyspace_name, table_name, raises_select)
         THEN SchemaOutcome(True, kss, tbls, 1)
         ELSE IF raises_create \/ SelectKeyspace(kss, keyspace_name) = {}
              THEN SchemaOutcome(False, kss, tbls, 2)
              ELSE SchemaOutcome(True, kss, CreateTable(tbls, keyspace_name, table_name), 2)

\* where a connection or schema call fails: "cluster": Cluster(...) raises;
\* "connect": cluster.connect() raises; "keyspace": the SELECT on
\* system_schema.keyspaces raises; "create": CREATE KEYSPACE raises;
\* "set_keyspace": session.set_keyspace raises
SessionFaults == {"cluster", "connect", "keyspace", "create", "set_keyspace"}
\* "table_select": the SELECT on system_schema.tables raises; "table_create":
\* CREATE TABLE raises
SchemaFaults == SessionFaults \cup {"table_select", "table_create"}

\* what a connection call returns, what it did to the Cluster object it
\* created and the schema it leaves
Connection(session, cluster_, h, n, kss, tbls) ==
    [session |-> session, cluster |-> cluster_, handle |-> h, shutdowns |-> n,
     keyspaces |-> kss, tables |-> tbls]

create_connection(kss, tbls, faults) ==
    IF "cluster" \in faults
    THEN Connection(None, None, "absent", 0, kss, tbls)
    ELSE IF "connect" \in faults
         THEN Connection(None, None, "shutdown", 1, kss, tbls)
         ELSE Connection(Session, Cluster, "open", 0, kss, tbls)

\* returns (None, None) on a set_keyspace failure and leaves the cluster open
get_session_leak(kss, tbls, keyspace_name, replication_factor, faults) ==
    LET conn == create_connection(kss, tbls, faults)
        keyspace_created == create_keyspace_if_not_exists(kss, tbls, conn.session,
                                keyspace_name, replication_factor,
                                "keyspace" \in faults, "create" \in faults)
    IN  IF conn.session = None
        THEN conn
        ELSE IF keyspace_created.ret # True
             THEN Connection(None, None, "shutdown", conn.shutdowns + 1,
                             keyspace_created.keyspaces, tbls)
             ELSE IF "set_keyspace" \in faults
                  THEN Connection(None, None, conn.handle, conn.shutdowns,
                                  keyspace_created.keyspaces, tbls)
                  ELSE Connection(conn.session, conn.cluster, conn.handle,
                                  conn.shutdowns, keyspace_created.keyspaces, tbls)

get_session(kss, tbls, keyspace_name, replication_factor, faults) ==
    LET conn == create_connection(kss, tbls, faults)
        keyspace_created == create_keyspace_if_not_exists(kss, tbls, conn.session,
                                keyspace_name, replication_factor,
                                "keyspace" \in faults, "create" \in faults)
    IN  IF conn.session = None
        THEN conn
        ELSE IF keyspace_created.ret # True
             THEN Connection(None, None, "shutdown", conn.shutdowns + 1,
                             keyspace_created.keyspaces, tbls)
             ELSE IF "set_keyspace" \in faults
                  THEN Connection(None, None, "shutdown", conn.shutdowns + 1,
                                  keyspace_created.keyspaces, tbls)
                  ELSE Connection(conn.session, conn.cluster, conn.handle,
                                  conn.shutdowns, keyspace_created.keyspaces, tbls)

\* close_connection(cluster): the handle and the shutdown count afterwards
close_connection(c, h, n) ==
    IF c # None THEN [handle |-> "shutdown", shutdowns |-> n + 1]
    ELSE [handle |-> h, shutdowns |-> n]

\* get_session with the default replication_factor, then create_table
setup_schema(kss, tbls, keyspace_name, table_name, faults) ==
    LET got == get_session(kss, tbls, keyspace_name, 1, faults)
        table_created == create_table(got.keyspaces, tbls, got.session,
                             keyspace_name, table_name,
                             "table_select" \in faults, "table_create" \in faults)
        closed == close_connection(got.cluster, got.handle, got.shutdowns)
    IN  IF got.session = None
        THEN got
        ELSE IF table_created.ret # True
             THEN Connection(None, None, closed.handle, closed.shutdowns,
                             got.keyspaces, table_created.tables)
             ELSE Connection(got.session, got.cluster, got.handle, got.shutdowns,
                             got.keyspaces, table_created.tables)

---------------------------------------------------------------------------
(* The client interface: one action per call                               *)

Sessions == {None, Session}
Statements == {None, PreparedStatement}

KeyRows(tbl, device_id, datetime) ==
    {r \in tbl : SameKey(r, device_id, ToTimestamp(datetime))}

\* the store can raise only in a call that reaches it
Reaches(session, prepared_statement, raises) ==
    raises => (session # None /\ prepared_statement # None)

\* a call without a session or a statement returns before it looks at the
\* reading: one reading per device stands for all of them
MissingHandle(session, prepared_statement) ==
    session = None \/ prepared_statement = None

Record(c, out, prior) ==
    /\ call' = c
    /\ ret' = out.ret
    /\ failed' = out.failed
    /\ contacts' = out.contacts
    /\ old' = prior
    /\ table' = out.table
    /\ repeated' = FALSE
    /\ UNCHANGED <<keyspaces, tables, writers, dashVars>>
    /\ UNCHANGED genVars

CallInsert ==
    \E session \in Sessions, prepared_statement \in Statements,
       device_id \in DeviceInputs, timestamp \in TimeInputs,
       reading \in ReadingInputs, raises \in BOOLEAN :
        LET sensor_type == reading[1]
            sensor_value == reading[2]
            out == insert_sensor_reading(table, session, prepared_statement,
                       device_id, timestamp, sensor_type, sensor_value, raises)
        IN  /\ Reaches(session, prepared_statement, raises)
            /\ MissingHandle(session, prepared_statement) =>
                   (timestamp = 1000 /\ reading = <<"temperature", 1000>>)
            /\ Cardinality(out.table) <= MaxRows
            /\ Record([op |-> "insert_sensor_reading", session |-> session,
                       prepared_statement |-> prepared_statement,
                       device_id |-> device_id, timestamp |-> timestamp,
                       sensor_type |-> sensor_type, sensor_value |-> sensor_value,
                       raises |-> raises],
                      out, KeyRows(table, device_id, timestamp))

CallRecentReadings ==
    \E session \in Sessions, device_id \in DeviceInputs, limit \in LimitInputs,
       raises \in BOOLEAN :
        /\ Reaches(session, PreparedStatement, raises)
        /\ Record([op |-> "get_recent_readings", session |-> session,
                   device_id |-> device_id, limit |-> limit, raises |-> raises],
                  get_recent_readings(table, session, device_id, limit, raises), {})

CallAverageValue ==
    \E session \in Sessions, device_id \in DeviceInputs, sensor_type \in TypeInputs,
       raises \in BOOLEAN :
        /\ Reaches(session, PreparedStatement, raises)
        /\ Record([op |-> "get_average_value", session |-> session,
                   device_id |-> device_id, sensor_type |-> sensor_type,
                   raises |-> raises],
                  get_average_value(table, session, device_id, sensor_type, raises), {})

CallAllDevices ==
    \E session \in Sessions, device_ids \in Orders(DistinctDevices(table)),
       raises \in BOOLEAN :
        /\ Reaches(session, PreparedStatement, raises)
        /\ Record([op |-> "get_all_devices", session |-> session, raises |-> raises,
                   store_order |-> device_ids],
                  get_all_devices(table, session, device_ids, raises), {})

\* the writer processes, and a writer that has not called yet
Writers == {1, 2}
Idle == [pc |-> "ready", device_id |-> 0, timestamp |-> 0, sensor_type |-> "",
         sensor_value |-> 0, writetime |-> 0, ret |-> None]

\* no dashboard script has run
DashIdle ==
    /\ cache = None
    /\ reruns = 0
    /\ selected_device = 0
    /\ selected_sensor_type = ""

StoreInit ==
    /\ writers = [w \in Writers |-> Idle]
    /\ DashIdle
    /\ table = {}
    /\ call = [op |-> "none"]
    /\ ret = None
    /\ failed = FALSE
    /\ contacts = 0
    /\ old = {}

\* the module globals of data_generator.py before main runs
GenInit ==
    /\ pc = "get_session"
    /\ running = TRUE
    /\ main_session = None
    /\ cluster = None
    /\ prepared_insert = None
    /\ handle = "absent"
    /\ shutdowns = 0
    /\ prepares = 0
    /\ reading_count = 0
    /\ successes = 0
    /\ sweep_timestamp = 0
    /\ attempts = <<>>
    /\ late_inserts = 0
    /\ now = 0
    /\ signals = 0
    /\ exit_code = 0

\* the store after schema_setup.py has run
SchemaInit ==
    /\ keyspaces = CreateKeyspace({}, KEYSPACE_NAME, 1)
    /\ tables = CreateTable({}, KEYSPACE_NAME, TABLE_NAME)
    /\ repeated = FALSE

Init == StoreInit /\ GenInit /\ SchemaInit

Next ==
    \/ CallInsert
    \/ CallRecentReadings
    \/ CallAverageValue
    \/ CallAllDevices

Spec == Init /\ [][Next]_vars

---------------------------------------------------------------------------
(* Properties of the client interface                                      *)

\* an exception of the given class propagating to the caller
Raised(exception) == [type |-> "raise", exception |-> exception]

\* the store answered the call: a session was passed and nothing raised
Answered == call.session # None /\ ~call.raises

Elements(s) == {s[i] : i \in 1..Len(s)}

\* C1: for limit >= 1 get_recent_readings returns at most limit rows, all of
\* the requested device, with timestamps non-increasing from first to last.
C1_RecentBoundedNewestFirst ==
    (call.op = "get_recent_readings" /\ call.limit >= 1) =>
        /\ Len(ret.rows) <= call.limit
        /\ \A i \in 1..Len(ret.rows) : ret.rows[i].device_id = call.device_id
        /\ \A i \in 1..(Len(ret.rows) - 1) :
               ret.rows[i].timestamp >= ret.rows[i + 1].timestamp

\* the limit cuts a partition of two rows, and a read returns two rows
C1_Witness ==
    /\ call.op = "get_recent_readings"
    /\ Cardinality(Partition(table, call.device_id)) = 2
    /\ Cardinality(table) = 3
    /\ \/ call.limit = 1 /\ Len(ret.rows) = 1
       \/ call.limit = 2 /\ Len(ret.rows) = 2

\* C2: a read the store answers, with limit >= 1, returns exactly the
\* min(limit, n) stored rows of the device with the greatest timestamps,
\* each with the sensor_type and sensor_value stored.
C2_RecentReturnsNewest ==
    (call.op = "get_recent_readings" /\ call.limit >= 1 /\ Answered) =>
        LET part == {RowDict(r) : r \in Partition(table, call.device_id)}
            got == Elements(ret.rows)
        IN  /\ Len(ret.rows) = Min(call.limit, Cardinality(part))
            /\ Cardinality(got) = Len(ret.rows)
            /\ got \subseteq part
            /\ \A r \in part \ got : \A g \in got : g.timestamp > r.timestamp

\* device written at 1000 and 2000, read with limit 1: the row of 2000
C2_Witness ==
    /\ call.op = "get_recent_readings"
    /\ call.limit = 1
    /\ Answered
    /\ {r.timestamp : r \in Partition(table, call.device_id)}
           = {ToTimestamp(1000), ToTimestamp(2000)}
    /\ Len(ret.rows) = 1
    /\ ret.rows[1].timestamp = 2000

UniqueKeys(tbl) ==
    \A r1, r2 \in tbl :
        (r1.device_id = r2.device_id /\ r1.timestamp = r2.timestamp) => r1 = r2

\* C3: the table holds at most one row per (device_id, timestamp), and after
\* a successful insert the row under the written key is the one written.
C3_OneRowPerKeyLastWriteWins ==
    /\ UniqueKeys(table)
    /\ (call.op = "insert_sensor_reading" /\ ret = True) =>
           KeyRows(table, call.device_id, call.timestamp)
               = {Row(call.device_id, ToTimestamp(call.timestamp),
                      call.sensor_type, call.sensor_value)}

\* a successful insert on a key that held a different reading
C3_Witness ==
    /\ call.op = "insert_sensor_reading"
    /\ ret = True
    /\ old # {}
    /\ old # KeyRows(table, call.device_id, call.timestamp)
    /\ Cardinality(table) >= 2

\* C4: get_average_value returns the mean, rounded to 2 decimal places, of
\* sensor_value over all stored rows matching device_id and sensor_type.
C4_AverageIsMeanOfAllMatching ==
    (/\ call.op = "get_average_value"
     /\ Answered
     /\ SelectValues(table, call.device_id, call.sensor_type) # {}) =>
        LET values == SelectValues(table, call.device_id, call.sensor_type)
        IN  ret = Float(Round2(SumValues(values), Cardinality(values)))

\* C5: get_average_value returns None, never 0.0, whenever no stored row
\* matches both device_id and sensor_type.
C5_AverageNoneWhenNoMatch ==
    (/\ call.op = "get_average_value"
     /\ SelectValues(table, call.device_id, call.sensor_type) = {}) =>
        ret = None

\* the store is reached and the device holds rows of another type only
C5_Witness ==
    /\ call.op = "get_average_value"
    /\ Answered
    /\ Partition(table, call.device_id) # {}
    /\ SelectValues(table, call.device_id, call.sensor_type) = {}
    /\ ret = None

\* C6: a get_all_devices the store answers returns the device ids that have
\* at least one stored row, each once, in ascending order; the empty list
\* when the table is empty.
C6_AllDevicesSortedDistinct ==
    (call.op = "get_all_devices" /\ Answered) =>
        /\ ret.type = "list"
        /\ Elements(ret.items) = DistinctDevices(table)
        /\ \A i \in 1..(Len(ret.items) - 1) : ret.items[i] < ret.items[i + 1]

\* two devices with three rows, returned by the store in descending order
C6_Witness ==
    /\ call.op = "get_all_devices"
    /\ Answered
    /\ Cardinality(table) = 3
    /\ call.store_order = <<2, 1>>
    /\ ret = List(<<1, 2>>)

\* C7: get_recent_readings with limit <= 0 raises InvalidArgument.
C7_NonPositiveLimitRejected ==
    (call.op = "get_recent_readings" /\ call.limit <= 0) =>
        ret = Raised("InvalidArgument")

\* what each read returns when it legitimately finds no data
NoData(op) ==
    CASE op = "get_recent_readings" -> DataFrame(Columns, <<>>)
      [] op = "get_average_value" -> None
      [] op = "get_all_devices" -> List(<<>>)

ReadOps == {"get_recent_readings", "get_average_value", "get_all_devices"}

\* C8: a failed read never returns the value a successful read returns when
\* it finds no data.
C8_FailureDistinguishable ==
    (call.op \in ReadOps /\ failed) => ret # NoData(call.op)

\* C9: insert_sensor_reading returns TRUE exactly when the store accepted
\* the write and FALSE otherwise; on FALSE the table is unchanged; the store
\* is contacted at most once; the call returns a boolean, raising nothing.
C9_InsertReportsOutcome ==
    [][call'.op = "insert_sensor_reading" =>
          /\ ret' \in {True, False}
          /\ (ret' = True) = (/\ call'.session # None
                              /\ call'.prepared_statement # None
                              /\ ~call'.raises)
          /\ contacts' <= 1
          /\ (ret' = False => table' = table)
          /\ (ret' = True =>
                  Row(call'.device_id, ToTimestamp(call'.timestamp),
                      call'.sensor_type, call'.sensor_value) \in table')
      ]_storeVars

\* the store raised on a write to a key that already holds a row
C9_Witness ==
    /\ call.op = "insert_sensor_reading"
    /\ ret = False
    /\ call.raises
    /\ contacts = 1
    /\ old # {}

---------------------------------------------------------------------------
(* data_generator.py: the generator process                                *)

MaxSweeps == 2                    \* sweeps main may start
MaxSignals == 2                   \* signals delivered to the process
InsertMicros == 500               \* microseconds one insert call takes

DEVICE_IDS == <<1, 2, 3>>
SLEEP_INTERVAL_MIN == 2
SLEEP_INTERVAL_MAX == 3
MicrosPerSecond == 1000000
\* random.uniform(SLEEP_INTERVAL_MIN, SLEEP_INTERVAL_MAX), in microseconds
SleepTimes == {SLEEP_INTERVAL_MIN * MicrosPerSecond, SLEEP_INTERVAL_MAX * MicrosPerSecond}
\* generate_sensor_reading: the (sensor_type, sensor_value) pairs drawn; the
\* pair drawn plays no part in the control flow of main
GeneratedReadings == {<<"temperature", 2000>>}

Terminated == pc \in {"exited", "stopped"}

\* the statements of main inside the try block
InTry == pc \in {"while", "generate", "insert", "count", "sleep"}

\* goes on to prepare the statement when get_session returned no session
Main_GetSession_NoExit ==
    /\ pc = "get_session"
    /\ \E faults \in SUBSET SessionFaults :
        LET got == get_session(keyspaces, tables, KEYSPACE_NAME, 1, faults)
        IN  /\ main_session' = got.session
            /\ cluster' = got.cluster
            /\ handle' = got.handle
            /\ shutdowns' = shutdowns + got.shutdowns
            /\ keyspaces' = got.keyspaces
            /\ IF got.session = None
               THEN pc' = "prepare" /\ exit_code' = exit_code
               ELSE pc' = "prepare" /\ exit_code' = exit_code
    /\ UNCHANGED <<running, prepared_insert, prepares, reading_count, successes,
                   sweep_timestamp, attempts, late_inserts, now, signals>>
    /\ UNCHANGED <<storeVars, tables, repeated, writers, dashVars>>

\* session, cluster = get_session(); if session is None: sys.exit(1)
Main_GetSession ==
    /\ pc = "get_session"
    /\ \E faults \in SUBSET SessionFaults :
        LET got == get_session(keyspaces, tables, KEYSPACE_NAME, 1, faults)
        IN  /\ main_session' = got.session
            /\ cluster' = got.cluster
            /\ handle' = got.handle
            /\ shutdowns' = shutdowns + got.shutdowns
            /\ keyspaces' = got.keyspaces
            /\ IF got.session = None
               THEN pc' = "exited" /\ exit_code' = 1
               ELSE pc' = "prepare" /\ exit_code' = exit_code
    /\ UNCHANGED <<running, prepared_insert, prepares, reading_count, successes,
                   sweep_timestamp, attempts, late_inserts, now, signals>>
    /\ UNCHANGED <<storeVars, tables, repeated, writers, dashVars>>

\* prepare_insert_statement(session): None when session.prepare raises
prepare_insert_statement(session, raises) ==
    IF session = None THEN None
    ELSE IF raises THEN None ELSE PreparedStatement

\* prepared_insert = prepare_insert_statement(session); on None:
\* close_connection(cluster); sys.exit(1)
Main_Prepare ==
    /\ pc = "prepare"
    /\ \E raises \in BOOLEAN :
        /\ handle = "shutdown" => raises
        /\ LET prepared == prepare_insert_statement(main_session, raises)
               closed == close_connection(cluster, handle, shutdowns)
           IN  /\ prepared_insert' = prepared
               /\ prepares' = prepares + 1
               /\ IF prepared = None
                  THEN /\ handle' = closed.handle
                       /\ shutdowns' = closed.shutdowns
                       /\ pc' = "exited"
                       /\ exit_code' = 1
                  ELSE /\ pc' = "while"
                       /\ UNCHANGED <<handle, shutdowns, exit_code>>
    /\ UNCHANGED <<running, main_session, cluster, reading_count, successes,
                   sweep_timestamp, attempts, late_inserts, now, signals>>
    /\ UNCHANGED <<storeVars, schemaVars, writers, dashVars>>

\* while running:
Main_While ==
    /\ pc = "while"
    /\ IF running
       THEN Len(attempts) < MaxSweeps * Len(DEVICE_IDS) /\ pc' = "generate"
       ELSE pc' = "finally"
    /\ UNCHANGED <<running, main_session, cluster, prepared_insert, handle,
                   shutdowns, prepares, reading_count, successes, sweep_timestamp,
                   attempts, late_inserts, now, signals, exit_code>>
    /\ UNCHANGED <<storeVars, schemaVars, writers, dashVars>>

\* prepares the insert statement again at the start of every sweep
Generate_Timestamp_Reprepare ==
    /\ pc = "generate"
    /\ sweep_timestamp' = now
    /\ prepared_insert' = prepare_insert_statement(main_session, handle = "shutdown")
    /\ prepares' = prepares + 1
    /\ pc' = "insert"
    /\ UNCHANGED <<running, main_session, cluster, handle,
                   shutdowns, reading_count, successes,
                   attempts, late_inserts, now, signals, exit_code>>
    /\ UNCHANGED <<storeVars, schemaVars, writers, dashVars>>

\* generate_and_insert_data: timestamp = datetime.now()
Generate_Timestamp ==
    /\ pc = "generate"
    /\ sweep_timestamp' = now
    /\ pc' = "insert"
    /\ UNCHANGED <<running, main_session, cluster, prepared_insert, handle,
                   shutdowns, prepares, reading_count, successes,
                   attempts, late_inserts, now, signals, exit_code>>
    /\ UNCHANGED <<storeVars, schemaVars, writers, dashVars>>

\* walks DEVICE_IDS from its last entry to its first
DeviceIndex_Reversed == Len(DEVICE_IDS) - (Len(attempts) % Len(DEVICE_IDS))

\* the position in DEVICE_IDS of the for loop of the current sweep
DeviceIndex == (Len(attempts) % Len(DEVICE_IDS)) + 1

\* leaves the sweep when an insert fails
NextInLoop_Abort(index, success) ==
    IF success # True THEN "finally"
    ELSE IF index = Len(DEVICE_IDS) THEN "count" ELSE "insert"

\* where the for loop goes after the insert of DEVICE_IDS[index]: success
\* selects the line printed and nothing else
NextInLoop(index, success) ==
    IF index = Len(DEVICE_IDS) THEN "count" ELSE "insert"

\* one iteration of `for device_id in DEVICE_IDS`
Generate_Insert ==
    /\ pc = "insert"
    /\ \E reading \in GeneratedReadings, raises \in BOOLEAN :
        /\ handle = "shutdown" => raises
        /\ LET device_id == DEVICE_IDS[DeviceIndex]
               out == insert_sensor_reading(table, main_session, prepared_insert,
                          device_id, sweep_timestamp, reading[1], reading[2], raises)
           IN  /\ table' = out.table
               /\ successes' = IF out.ret = True THEN successes + 1 ELSE successes
               /\ attempts' = Append(attempts,
                      [device_id |-> device_id, timestamp |-> sweep_timestamp,
                       statement |-> prepared_insert, prepares |-> prepares,
                       success |-> out.ret])
               /\ late_inserts' = IF handle = "shutdown" THEN late_inserts + 1
                                  ELSE late_inserts
               /\ now' = now + InsertMicros
               /\ pc' = NextInLoop(DeviceIndex, out.ret)
    /\ UNCHANGED <<running, main_session, cluster, prepared_insert, handle,
                   shutdowns, prepares, reading_count, sweep_timestamp,
                   signals, exit_code>>
    /\ UNCHANGED <<call, ret, failed, contacts, old>>
    /\ UNCHANGED <<schemaVars, writers, dashVars>>

\* reading_count += len(DEVICE_IDS)
Main_Count ==
    /\ pc = "count"
    /\ reading_count' = reading_count + Len(DEVICE_IDS)
    /\ pc' = "sleep"
    /\ UNCHANGED <<running, main_session, cluster, prepared_insert, handle,
                   shutdowns, prepares, successes, sweep_timestamp,
                   attempts, late_inserts, now, signals, exit_code>>
    /\ UNCHANGED <<storeVars, schemaVars, writers, dashVars>>

\* time.sleep(random.uniform(SLEEP_INTERVAL_MIN, SLEEP_INTERVAL_MAX))
Main_Sleep ==
    /\ pc = "sleep"
    /\ \E sleep_time \in SleepTimes : now' = now + sleep_time
    /\ pc' = "while"
    /\ UNCHANGED <<running, main_session, cluster, prepared_insert, handle,
                   shutdowns, prepares, reading_count, successes, sweep_timestamp,
                   attempts, late_inserts, signals, exit_code>>
    /\ UNCHANGED <<storeVars, schemaVars, writers, dashVars>>

\* closes the connection and leaves the running flag as it is
HandleSignal_KeepRunning ==
    LET closed == close_connection(cluster, handle, shutdowns)
    IN  /\ running' = running
        /\ handle' = closed.handle
        /\ shutdowns' = closed.shutdowns

\* signal_handler: running = False; if cluster: close_connection(cluster)
HandleSignal ==
    LET closed == close_connection(cluster, handle, shutdowns)
    IN  /\ running' = FALSE
        /\ handle' = closed.handle
        /\ shutdowns' = closed.shutdowns

\* SIGINT or SIGTERM delivered while main runs
signal_handler ==
    /\ ~Terminated
    /\ signals < MaxSignals
    /\ signals' = signals + 1
    /\ HandleSignal
    /\ UNCHANGED <<pc, main_session, cluster, prepared_insert, prepares,
                   reading_count, successes, sweep_timestamp, attempts,
                   late_inserts, now, exit_code>>
    /\ UNCHANGED <<storeVars, schemaVars, writers, dashVars>>

\* except KeyboardInterrupt: signal_handler(None, None)
Main_KeyboardInterrupt ==
    /\ InTry
    /\ HandleSignal
    /\ pc' = "finally"
    /\ UNCHANGED <<main_session, cluster, prepared_insert, prepares,
                   reading_count, successes, sweep_timestamp, attempts,
                   late_inserts, now, signals, exit_code>>
    /\ UNCHANGED <<storeVars, schemaVars, writers, dashVars>>

\* except Exception: running = False
Main_Exception ==
    /\ InTry
    /\ running' = FALSE
    /\ pc' = "finally"
    /\ UNCHANGED <<main_session, cluster, prepared_insert, handle, shutdowns,
                   prepares, reading_count, successes, sweep_timestamp, attempts,
                   late_inserts, now, signals, exit_code>>
    /\ UNCHANGED <<storeVars, schemaVars, writers, dashVars>>

\* a finally block that leaves the connection open
Main_Finally_NoClose ==
    /\ pc = "finally"
    /\ pc' = "stopped"
    /\ UNCHANGED <<running, main_session, cluster, prepared_insert, handle,
                   shutdowns, prepares, reading_count, successes, sweep_timestamp,
                   attempts, late_inserts, now, signals, exit_code>>
    /\ UNCHANGED <<storeVars, schemaVars, writers, dashVars>>

\* finally: if cluster: close_connection(cluster)
Main_Finally ==
    /\ pc = "finally"
    /\ LET closed == close_connection(cluster, handle, shutdowns)
       IN  handle' = closed.handle /\ shutdowns' = closed.shutdowns
    /\ pc' = "stopped"
    /\ UNCHANGED <<running, main_session, cluster, prepared_insert, prepares,
                   reading_count, successes, sweep_timestamp, attempts,
                   late_inserts, now, signals, exit_code>>
    /\ UNCHANGED <<storeVars, schemaVars, writers, dashVars>>

GenNext ==
    \/ Main_GetSession
    \/ Main_Prepare
    \/ Main_While
    \/ Generate_Timestamp
    \/ Generate_Insert
    \/ Main_Count
    \/ Main_Sleep
    \/ signal_handler
    \/ Main_KeyboardInterrupt
    \/ Main_Exception
    \/ Main_Finally

GenSpec == Init /\ [][GenNext]_vars

\* C10: when main has stopped and get_session had handed it a cluster, that
\* cluster has been shut down.
C10_HandleReleasedOnEveryExit ==
    (Terminated /\ cluster # None) => (handle = "shutdown" /\ shutdowns >= 1)

\* main stopped through the except Exception path after a sweep, with no
\* signal delivered, and the handle is shut down
C10_Witness ==
    /\ pc = "stopped"
    /\ cluster # None
    /\ signals = 0
    /\ Len(attempts) >= 1
    /\ handle = "shutdown"
    /\ shutdowns = 1

\* the sweep an attempt belongs to, counted from 0
SweepOf(i) == (i - 1) \div Len(DEVICE_IDS)

\* C13: prepare_insert_statement is invoked at most once in a run, and every
\* insert of every sweep is made after exactly one invocation, with the
\* statement it returned.
C13_PreparedOnceAndReused ==
    /\ prepares <= 1
    /\ \A i \in 1..Len(attempts) :
           attempts[i].prepares = 1 /\ attempts[i].statement = PreparedStatement

\* two sweeps were made with one prepared statement
C13_Witness ==
    /\ Len(attempts) >= 2 * Len(DEVICE_IDS)
    /\ prepares = 1
    /\ attempts[1].statement = attempts[Len(attempts)].statement

\* C14: an insert that returns False leaves the loop as a successful one
\* does (the next device, or the count after the last device), leaves
\* running and the table alone, and the reading it failed to write is never
\* stored later.
C14_FailedInsertNonFatal ==
    /\ [][(/\ pc = "insert"
           /\ Len(attempts') = Len(attempts) + 1
           /\ attempts'[Len(attempts')].success = False)
          => (/\ pc' = IF DeviceIndex = Len(DEVICE_IDS) THEN "count" ELSE "insert"
              /\ running' = running
              /\ table' = table)]_vars
    /\ [](\A i \in 1..Len(attempts) :
              /\ attempts[i].device_id = DEVICE_IDS[((i - 1) % Len(DEVICE_IDS)) + 1]
              /\ attempts[i].success = False =>
                     KeyRows(table, attempts[i].device_id, attempts[i].timestamp) = {})

\* the first insert of the first sweep failed with the connection open, the
\* other devices of that sweep were written and a second sweep was made
C14_Witness ==
    /\ Len(attempts) > Len(DEVICE_IDS)
    /\ attempts[1].success = False
    /\ attempts[2].success = True
    /\ attempts[Len(DEVICE_IDS)].success = True
    /\ attempts[Len(DEVICE_IDS) + 1].success = True
    /\ signals = 0

\* C15: when get_session returned no session, or prepare_insert_statement
\* returned None, main has exited with status 1 having prepared at most once
\* and attempted no insert, and it takes no further step.
C15_ConnectionFailureFatal ==
    /\ []((\/ pc # "get_session" /\ main_session = None
           \/ pc \notin {"get_session", "prepare"} /\ prepared_insert = None)
          => (/\ pc = "exited"
              /\ exit_code = 1
              /\ attempts = <<>>
              /\ reading_count = 0))
    /\ [][pc # "exited"]_vars

\* get_session succeeded, the prepare failed, main closed the connection and
\* exited with status 1
C15_Witness ==
    /\ pc = "exited"
    /\ main_session # None
    /\ prepared_insert = None
    /\ prepares = 1
    /\ handle = "shutdown"
    /\ exit_code = 1

\* C19: the inserts are attempted in sweeps over DEVICE_IDS in list order,
\* the attempts of one sweep carry one timestamp, and the timestamps of two
\* consecutive sweeps are one sleep (and the time of the inserts) apart.
C19_OneSweepPerIteration ==
    \A i \in 1..Len(attempts) :
        /\ attempts[i].device_id = DEVICE_IDS[i - SweepOf(i) * Len(DEVICE_IDS)]
        /\ \A j \in 1..Len(attempts) :
               /\ SweepOf(j) = SweepOf(i) => attempts[j].timestamp = attempts[i].timestamp
               /\ SweepOf(j) = SweepOf(i) + 1 =>
                      (attempts[j].timestamp - attempts[i].timestamp
                          - Len(DEVICE_IDS) * InsertMicros) \in SleepTimes

\* two full sweeps, the second started one sleep after the first
C19_Witness ==
    /\ Len(attempts) = 2 * Len(DEVICE_IDS)
    /\ pc = "count"
    /\ attempts[1].timestamp # attempts[Len(attempts)].timestamp
    /\ now > attempts[Len(attempts)].timestamp

\* the statements of main: the main thread runs whenever it can
MainStep ==
    \/ Main_GetSession
    \/ Main_Prepare
    \/ Main_While
    \/ Generate_Timestamp
    \/ Generate_Insert
    \/ Main_Count
    \/ Main_Sleep
    \/ Main_Finally

GenFairSpec == GenSpec /\ WF_vars(MainStep)

\* C21: once a signal has been delivered the running flag is false, the loop
\* starts no sweep any more, and main, when the signal found it inside the
\* loop, eventually reaches its final state.
C21_StopsAfterSignal ==
    /\ [](signals > 0 => ~running)
    /\ [][signals > 0 => ~(pc = "while" /\ pc' = "generate")]_vars
    /\ ((signals > 0 /\ InTry) ~> (pc = "stopped"))

\* a signal arrived in the middle of a sweep; the sweep was finished and
\* counted, and main stopped through the loop condition
C21_Witness ==
    /\ pc = "stopped"
    /\ signals = 1
    /\ late_inserts >= 1
    /\ late_inserts < Len(DEVICE_IDS)
    /\ reading_count = Len(attempts)
    /\ ~running

\* C22: no insert is attempted after cluster.shutdown() was invoked.
C22_NoInsertAfterRelease ==
    late_inserts = 0

\* C23: when main has stopped after get_session had handed it a cluster,
\* cluster.shutdown() has been invoked exactly once.
C23_ReleasedExactlyOnce ==
    (Terminated /\ cluster # None) => shutdowns = 1

\* C24: the reading_count main reports when it stops is the number of
\* insert_sensor_reading calls that returned True.
C24_CountEqualsSuccesses ==
    pc = "stopped" => reading_count = successes

---------------------------------------------------------------------------
(* The whole system on a fresh store: schema setup, connect, close, the    *)
(* write and the three reads                                               *)

MaxFaults == 2                    \* statements that raise in one connection call
ReplicationInputs == {-1, 0, 1}
\* the sets of faults of one call
FaultSets(S) == {faults \in SUBSET S : Cardinality(faults) <= MaxFaults}
SystemTimes == {1000, 2000}
SystemReadings == {<<"temperature", 1000>>, <<"motion", 100>>}
SystemLimits == {1, 2}

\* the table the statements of this system name exists
TableReady == SelectTable(tables, KEYSPACE_NAME, TABLE_NAME) # {}

\* a statement raises when the cluster of the session is shut down or the
\* table is missing
MustRaise(session) == session # None /\ (handle = "shutdown" \/ ~TableReady)

\* a schema call made directly: the call, its outcome, and whether it repeats
\* the successful call before it
RecordSchema(c, out) ==
    /\ call' = c
    /\ ret' = out.ret
    /\ failed' = (out.ret = False)
    /\ contacts' = out.contacts
    /\ old' = {}
    /\ keyspaces' = out.keyspaces
    /\ tables' = out.tables
    /\ repeated' = (ret = True /\ call.op = c.op /\ call.session = c.session
                    /\ call.keyspace_name = c.keyspace_name)
    /\ UNCHANGED <<table, writers, dashVars>>
    /\ UNCHANGED genVars

CallCreateKeyspace ==
    \E session \in Sessions, replication_factor \in ReplicationInputs,
       raises_select \in BOOLEAN, raises_create \in BOOLEAN :
        /\ (raises_select \/ raises_create) => session # None
        /\ handle = "shutdown" => raises_select
        /\ RecordSchema([op |-> "create_keyspace_if_not_exists", session |-> session,
                         keyspace_name |-> KEYSPACE_NAME,
                         replication_factor |-> replication_factor,
                         raises |-> raises_select \/ raises_create],
                        create_keyspace_if_not_exists(keyspaces, tables, session,
                            KEYSPACE_NAME, replication_factor, raises_select, raises_create))

CallCreateTable ==
    \E session \in Sessions, raises_select \in BOOLEAN, raises_create \in BOOLEAN :
        /\ (raises_select \/ raises_create) => session # None
        /\ handle = "shutdown" => (raises_select /\ raises_create)
        /\ RecordSchema([op |-> "create_table", session |-> session,
                         keyspace_name |-> KEYSPACE_NAME, table_name |-> TABLE_NAME,
                         raises |-> raises_select \/ raises_create],
                        create_table(keyspaces, tables, session, KEYSPACE_NAME,
                            TABLE_NAME, raises_select, raises_create))

\* a connection call: the process keeps the pair it returns
RecordConnection(c, got) ==
    /\ call' = c
    /\ ret' = Tuple(got.session, got.cluster)
    /\ failed' = (got.session = None)
    /\ contacts' = 0
    /\ old' = {}
    /\ main_session' = got.session
    /\ cluster' = got.cluster
    /\ handle' = got.handle
    /\ shutdowns' = got.shutdowns
    /\ keyspaces' = got.keyspaces
    /\ tables' = got.tables
    /\ repeated' = FALSE
    /\ UNCHANGED <<table, writers, dashVars>>
    /\ UNCHANGED <<pc, running, prepared_insert, prepares, reading_count,
                   successes, sweep_timestamp, attempts, late_inserts, now,
                   signals, exit_code>>

\* the process has no open connection
Disconnected == handle # "open"

CallGetSession ==
    \E replication_factor \in ReplicationInputs, faults \in FaultSets(SessionFaults) :
        /\ Disconnected
        /\ RecordConnection([op |-> "get_session", faults |-> faults,
                             replication_factor |-> replication_factor],
                            get_session(keyspaces, tables, KEYSPACE_NAME,
                                        replication_factor, faults))

CallSetupSchema ==
    \E faults \in FaultSets(SchemaFaults) :
        /\ Disconnected
        /\ RecordConnection([op |-> "setup_schema", faults |-> faults],
                            setup_schema(keyspaces, tables, KEYSPACE_NAME,
                                         TABLE_NAME, faults))

CallCloseConnection ==
    LET closed == close_connection(cluster, handle, shutdowns)
    IN  /\ call' = [op |-> "close_connection", cluster |-> cluster]
        /\ ret' = None
        /\ failed' = FALSE
        /\ contacts' = 0
        /\ old' = {}
        /\ handle' = closed.handle
        /\ shutdowns' = closed.shutdowns
        /\ shutdowns < 2
        /\ repeated' = FALSE
        /\ UNCHANGED <<table, keyspaces, tables, writers, dashVars>>
        /\ UNCHANGED <<pc, running, main_session, cluster, prepared_insert,
                       prepares, reading_count, successes, sweep_timestamp,
                       attempts, late_inserts, now, signals, exit_code>>

\* the write and the reads, made with the session the process holds
SystemInsert ==
    \E prepared_statement \in Statements, timestamp \in SystemTimes,
       reading \in SystemReadings, raises \in BOOLEAN :
        LET out == insert_sensor_reading(table, main_session, prepared_statement,
                       1, timestamp, reading[1], reading[2], raises)
        IN  /\ Reaches(main_session, prepared_statement, raises)
            /\ prepared_statement # None => TableReady
            /\ MustRaise(main_session) => raises
            /\ MissingHandle(main_session, prepared_statement) =>
                   (timestamp = 1000 /\ reading = <<"temperature", 1000>>)
            /\ Record([op |-> "insert_sensor_reading", session |-> main_session,
                       prepared_statement |-> prepared_statement,
                       device_id |-> 1, timestamp |-> timestamp,
                       sensor_type |-> reading[1], sensor_value |-> reading[2],
                       raises |-> raises],
                      out, KeyRows(table, 1, timestamp))

SystemRecentReadings ==
    \E limit \in SystemLimits, raises \in BOOLEAN :
        /\ Reaches(main_session, PreparedStatement, raises)
        /\ MustRaise(main_session) => raises
        /\ Record([op |-> "get_recent_readings", session |-> main_session,
                   device_id |-> 1, limit |-> limit, raises |-> raises],
                  get_recent_readings(table, main_session, 1, limit, raises), {})

SystemAverageValue ==
    \E raises \in BOOLEAN :
        /\ Reaches(main_session, PreparedStatement, raises)
        /\ MustRaise(main_session) => raises
        /\ Record([op |-> "get_average_value", session |-> main_session,
                   device_id |-> 1, sensor_type |-> "temperature",
                   raises |-> raises],
                  get_average_value(table, main_session, 1, "temperature", raises), {})

SystemAllDevices ==
    \E device_ids \in Orders(DistinctDevices(table)), raises \in BOOLEAN :
        /\ Reaches(main_session, PreparedStatement, raises)
        /\ MustRaise(main_session) => raises
        /\ Record([op |-> "get_all_devices", session |-> main_session,
                   raises |-> raises, store_order |-> device_ids],
                  get_all_devices(table, main_session, device_ids, raises), {})

\* a store with no keyspace, and a process that has not connected
SystemInit ==
    /\ StoreInit
    /\ GenInit
    /\ keyspaces = {}
    /\ tables = {}
    /\ repeated = FALSE

SystemNext ==
    \/ CallCreateKeyspace
    \/ CallCreateTable
    \/ CallGetSession
    \/ CallSetupSchema
    \/ CallCloseConnection
    \/ SystemInsert
    \/ SystemRecentReadings
    \/ SystemAverageValue
    \/ SystemAllDevices

SystemSpec == SystemInit /\ [][SystemNext]_vars

---------------------------------------------------------------------------
(* Properties of the schema calls                                          *)

SchemaOps == {"create_keyspace_if_not_exists", "create_table"}

\* C11: when create_keyspace_if_not_exists or create_table has returned True
\* and is called again right away with the same session and names, and the
\* store raises nothing, it returns True again after its one SELECT and the
\* rows of system_schema.keyspaces and system_schema.tables are unchanged.
C11_SchemaCallsIdempotent ==
    [][(/\ call.op \in SchemaOps
        /\ ret = True
        /\ call'.op = call.op
        /\ call'.session = call.session
        /\ call'.keyspace_name = call.keyspace_name
        /\ ~call'.raises)
       => (/\ ret' = True
           /\ contacts' = 1
           /\ keyspaces' = keyspaces
           /\ tables' = tables)]_vars

\* create_table called twice in a row, both calls returning True
C11_Witness ==
    /\ repeated
    /\ call.op = "create_table"
    /\ ~call.raises
    /\ ret = True
    /\ contacts = 1
    /\ tables = {TableDefinition(KEYSPACE_NAME, TABLE_NAME)}

\* C12: create_keyspace_if_not_exists called with replication_factor < 1
\* returns False and leaves system_schema.keyspaces as it was, whatever the
\* store held before.
C12_InvalidReplicationRejected ==
    [][(call'.op = "create_keyspace_if_not_exists" /\ call'.replication_factor < 1)
       => (ret' = False /\ keyspaces' = keyspaces)]_vars

---------------------------------------------------------------------------
(* Properties of the whole system                                          *)

\* C17 as claimed: every stored row is still stored, unchanged, after any
\* step of the system.
C17_ReadingsImmutable ==
    [][\A r \in table : r \in table']_vars

\* C17 as amended: the stored keys never shrink, and a stored row changes
\* only in a step that is a successful insert_sensor_reading on the key of
\* that row, which leaves the reading it wrote under the key.
C17_ReadingsKeptUntilOverwritten ==
    [][\A r \in table :
          /\ \E r2 \in table' : SameKey(r2, r.device_id, r.timestamp)
          /\ r \notin table' =>
                 (/\ call'.op = "insert_sensor_reading"
                  /\ ret' = True
                  /\ SameKey(r, call'.device_id, ToTimestamp(call'.timestamp))
                  /\ Row(call'.device_id, ToTimestamp(call'.timestamp),
                         call'.sensor_type, call'.sensor_value) \in table')]_vars

\* with two keys stored, a successful insert replaced the reading of one of
\* them through the session get_session or setup_schema returned
C17_Witness ==
    /\ call.op = "insert_sensor_reading"
    /\ ret = True
    /\ handle = "open"
    /\ Cardinality(table) = 2
    /\ old # {}
    /\ old # KeyRows(table, call.device_id, call.timestamp)

\* the calls the dashboard and the CLI make
ReaderOps == {"get_session", "close_connection"} \cup ReadOps

\* C18: no call the dashboard or the CLI makes changes the stored readings,
\* system_schema.keyspaces or system_schema.tables.
C18_ReadersWriteNothing ==
    [][call'.op \in ReaderOps =>
          (table' = table /\ keyspaces' = keyspaces /\ tables' = tables)]_vars

\* C20: when get_session or setup_schema returns (None, None) after the
\* Cluster object was created, cluster.shutdown() has been invoked on it;
\* when they return a session, it has not and the cluster is open.
C20_NoHandleLeak ==
    call.op \in {"get_session", "setup_schema"} =>
        /\ (ret.session = None /\ "cluster" \notin call.faults) =>
               (handle = "shutdown" /\ shutdowns >= 1)
        /\ ret.session # None =>
               (ret.cluster = Cluster /\ handle = "open" /\ shutdowns = 0)

\* setup_schema connected, created the keyspace, failed to create the table
\* and closed the connection before it returned (None, None)
C20_Witness ==
    /\ call.op = "setup_schema"
    /\ call.faults = {"table_create"}
    /\ ret = Tuple(None, None)
    /\ keyspaces # {}
    /\ tables = {}
    /\ handle = "shutdown"
    /\ shutdowns = 1

---------------------------------------------------------------------------
(* Two writer processes: each INSERT is a mutation that carries the write  *)
(* timestamp its client assigned (the clock, in microseconds, when execute *)
(* was called), and the store keeps, column by column, the cell with the   *)
(* greatest write timestamp                                                *)

MaxTicks == 2                     \* microseconds the clock advances
WriterTimes == {1000, 1500}
\* 20.50 C, 55.00 % and motion 1
WriterReadings == {<<"temperature", 2050>>, <<"humidity", 5500>>, <<"motion", 100>>}
\* a row of another device, stored before the writers start
BaseRows == {Row(2, ToTimestamp(1000), "motion", 100)}

\* the order of the serialized TEXT values
TypeOrder == <<"humidity", "motion", "temperature">>
TypeRank(sensor_type) == CHOOSE i \in DOMAIN TypeOrder : TypeOrder[i] = sensor_type

\* cell reconciliation: the greater write timestamp wins and, on equal
\* write timestamps, the greater value
CellWins(writetime1, value1, writetime2, value2) ==
    writetime1 > writetime2 \/ (writetime1 = writetime2 /\ value1 >= value2)

\* the mutations applied to one key, reconciled column by column
ReconciledRow(ms) ==
    LET t == CHOOSE m \in ms : \A n \in ms :
                 CellWins(m.writetime, TypeRank(m.sensor_type),
                          n.writetime, TypeRank(n.sensor_type))
        v == CHOOSE m \in ms : \A n \in ms :
                 CellWins(m.writetime, m.sensor_value, n.writetime, n.sensor_value)
        k == CHOOSE m \in ms : TRUE
    IN  Row(k.device_id, k.timestamp, t.sensor_type, v.sensor_value)

\* the table after the store applied a set of mutations to base
StoreRows(base, applied) ==
    {r \in base : \A m \in applied : ~SameKey(r, m.device_id, m.timestamp)}
        \cup {ReconciledRow({n \in applied : SameKey(n, m.device_id, m.timestamp)})
                  : m \in applied}

Applied(ws) == {ws[w] : w \in {x \in Writers : ws[x].pc \in {"applied", "done"} /\ ws[x].ret # False}}

\* insert_sensor_reading: session.execute(prepared_statement, [...]) sends
\* the INSERT, or raises before the store got it
Writer_Execute(w) ==
    /\ writers[w].pc = "ready"
    /\ \E timestamp \in WriterTimes, reading \in WriterReadings,
          raises \in BOOLEAN :
        writers' = [writers EXCEPT ![w] =
            [pc |-> IF raises THEN "done" ELSE "sent",
             device_id |-> 1, timestamp |-> ToTimestamp(timestamp),
             sensor_type |-> reading[1], sensor_value |-> reading[2],
             writetime |-> now,
             ret |-> IF raises THEN False ELSE None]]
    /\ UNCHANGED <<storeVars, genVars, schemaVars, dashVars>>

\* the store applies the mutation of w
Store_Apply(w) ==
    /\ writers[w].pc = "sent"
    /\ writers' = [writers EXCEPT ![w].pc = "applied"]
    /\ table' = StoreRows(BaseRows, Applied(writers'))
    /\ UNCHANGED <<call, ret, failed, contacts, old>>
    /\ UNCHANGED <<genVars, schemaVars, dashVars>>

\* session.execute returns, a round trip after it was called;
\* insert_sensor_reading returns True
Writer_Return(w) ==
    /\ writers[w].pc = "applied"
    /\ now > writers[w].writetime
    /\ writers' = [writers EXCEPT ![w].pc = "done", ![w].ret = True]
    /\ UNCHANGED <<storeVars, genVars, schemaVars, dashVars>>

\* a microsecond passes
Clock_Tick ==
    /\ now < MaxTicks
    /\ now' = now + 1
    /\ UNCHANGED <<pc, running, main_session, cluster, prepared_insert, handle,
                   shutdowns, prepares, reading_count, successes, sweep_timestamp,
                   attempts, late_inserts, signals, exit_code>>
    /\ UNCHANGED <<storeVars, schemaVars, writers, dashVars>>

WritersInit ==
    /\ writers = [w \in Writers |-> Idle]
    /\ DashIdle
    /\ table = BaseRows
    /\ call = [op |-> "none"]
    /\ ret = None
    /\ failed = FALSE
    /\ contacts = 0
    /\ old = {}
    /\ GenInit
    /\ SchemaInit

WritersNext ==
    \/ \E w \in Writers :
           \/ Writer_Execute(w)
           \/ Store_Apply(w)
           \/ Writer_Return(w)
    \/ Clock_Tick

WritersSpec == WritersInit /\ [][WritersNext]_vars

\* the row a writer sent
Written(w) ==
    Row(writers[w].device_id, writers[w].timestamp,
        writers[w].sensor_type, writers[w].sensor_value)

\* C16: when both writers have returned True from an insert on the same
\* (device_id, timestamp), the table holds exactly one row under that key,
\* it is the row one of the two writers sent, and the rows of the other keys
\* are as they were.
C16_ConcurrentWritersOneWins ==
    (/\ \A w \in Writers : writers[w].pc = "done" /\ writers[w].ret = True
     /\ SameKey(writers[1], writers[2].device_id, writers[2].timestamp)) =>
        LET rows == {r \in table : SameKey(r, writers[1].device_id, writers[1].timestamp)}
        IN  /\ rows \in {{Written(1)}, {Written(2)}}
            /\ table \ rows = BaseRows

---------------------------------------------------------------------------
(* The dashboard (dashboard.py): the script main is run again and again by *)
(* Streamlit in one server process, on a store the generator writes to     *)

MaxReruns == 2                    \* runs of the script
DashDevices == {1, 2}
DashTimes == {1000}
DashReadings == {<<"temperature", 1000>>, <<"motion", 100>>}
\* st.slider("Number of readings to display", min_value=10, max_value=100)
DashLimits == {10, 100}
\* sensor_types = ['temperature', 'humidity']
sensor_types == {"temperature", "humidity"}

\* the globals of the generator, which the dashboard process does not have
generatorOnly == <<running, prepared_insert, prepares, reading_count, successes,
                   sweep_timestamp, attempts, late_inserts, now, signals,
                   exit_code>>

\* df[df['sensor_type'] == sensor_type].sort_values('timestamp')
filter_readings_by_sensor_type(df, sensor_type) ==
    IF df.rows = <<>>
    THEN df
    ELSE DataFrame(df.columns,
             AscendingOrder({r \in Elements(df.rows) : r.sensor_type = sensor_type}))

\* a call main makes on its session
DashRecord(c, out) ==
    /\ call' = c
    /\ ret' = out.ret
    /\ failed' = out.failed
    /\ contacts' = out.contacts
    /\ old' = {}
    /\ table' = out.table
    /\ repeated' = FALSE

\* Streamlit starts the script
DashInit ==
    /\ StoreInit
    /\ SchemaInit
    /\ pc = "get_db_session"
    /\ running = TRUE
    /\ main_session = None
    /\ cluster = None
    /\ prepared_insert = None
    /\ handle = "absent"
    /\ shutdowns = 0
    /\ prepares = 0
    /\ reading_count = 0
    /\ successes = 0
    /\ sweep_timestamp = 0
    /\ attempts = <<>>
    /\ late_inserts = 0
    /\ now = 0
    /\ signals = 0
    /\ exit_code = 0

\* session, cluster = get_db_session(): st.cache_resource runs the function
\* on the first call and hands out the stored return value afterwards
Dash_GetDbSession ==
    /\ pc = "get_db_session"
    /\ IF cache = None
       THEN \E faults \in FaultSets(SessionFaults) :
                LET got == get_session(keyspaces, tables, KEYSPACE_NAME, 1, faults)
                IN  /\ cache' = Tuple(got.session, got.cluster)
                    /\ handle' = got.handle
                    /\ shutdowns' = shutdowns + got.shutdowns
                    /\ keyspaces' = got.keyspaces
       ELSE UNCHANGED <<cache, handle, shutdowns, keyspaces>>
    /\ main_session' = cache'.session
    /\ cluster' = cache'.cluster
    /\ pc' = IF cache'.session = None THEN "st_stop" ELSE "get_all_devices"
    /\ UNCHANGED <<storeVars, tables, repeated, writers, generatorOnly>>
    /\ UNCHANGED <<reruns, selected_device, selected_sensor_type>>

\* devices = get_all_devices(session); without devices the script closes the
\* connection and stops
Dash_GetAllDevices ==
    /\ pc = "get_all_devices"
    /\ \E device_ids \in Orders(DistinctDevices(table)), raises \in BOOLEAN :
        LET out == get_all_devices(table, main_session, device_ids, raises)
            closed == close_connection(cluster, handle, shutdowns)
        IN  /\ MustRaise(main_session) => raises
            /\ DashRecord([op |-> "get_all_devices", session |-> main_session,
                           raises |-> raises, store_order |-> device_ids], out)
            /\ IF out.ret.items = <<>>
               THEN /\ handle' = closed.handle
                    /\ shutdowns' = closed.shutdowns
                    /\ pc' = "st_stop"
               ELSE /\ UNCHANGED <<handle, shutdowns>>
                    /\ pc' = "get_recent_readings"
    /\ UNCHANGED <<main_session, cluster, keyspaces, tables, writers, dashVars,
                   generatorOnly>>

\* the two selectboxes and the slider, then
\* df = get_recent_readings(session, selected_device, limit=num_readings)
Dash_GetRecentReadings ==
    /\ pc = "get_recent_readings"
    /\ \E device \in Elements(ret.items), sensor_type \in sensor_types,
          num_readings \in DashLimits, raises \in BOOLEAN :
        LET out == get_recent_readings(table, main_session, device,
                                       num_readings, raises)
            filtered_df == filter_readings_by_sensor_type(out.ret, sensor_type)
        IN  /\ MustRaise(main_session) => raises
            /\ selected_device' = device
            /\ selected_sensor_type' = sensor_type
            /\ DashRecord([op |-> "get_recent_readings", session |-> main_session,
                           device_id |-> device, limit |-> num_readings,
                           raises |-> raises], out)
            /\ pc' = IF filtered_df.rows # <<>> THEN "get_average_value" ELSE "end"
    /\ UNCHANGED <<main_session, cluster, handle, shutdowns, keyspaces, tables,
                   writers, cache, reruns, generatorOnly>>

\* average = get_average_value(session, selected_device, selected_sensor_type)
Dash_GetAverageValue ==
    /\ pc = "get_average_value"
    /\ \E raises \in BOOLEAN :
        /\ MustRaise(main_session) => raises
        /\ DashRecord([op |-> "get_average_value", session |-> main_session,
                       device_id |-> selected_device,
                       sensor_type |-> selected_sensor_type, raises |-> raises],
                      get_average_value(table, main_session, selected_device,
                                        selected_sensor_type, raises))
    /\ pc' = "end"
    /\ UNCHANGED <<main_session, cluster, handle, shutdowns, keyspaces, tables,
                   writers, dashVars, generatorOnly>>

\* st.rerun() after the refresh interval or the button, or a widget of the
\* page the stopped script left: Streamlit runs main again in the same process
Dash_Rerun ==
    /\ pc \in {"end", "st_stop"}
    /\ reruns < MaxReruns
    /\ reruns' = reruns + 1
    /\ pc' = "get_db_session"
    /\ selected_device' = 0
    /\ selected_sensor_type' = ""
    /\ UNCHANGED <<storeVars, schemaVars, writers, cache, main_session, cluster,
                   handle, shutdowns, generatorOnly>>

\* the generator, a process with a connection of its own, inserts a reading
Generator_Insert ==
    /\ \E device_id \in DashDevices, timestamp \in DashTimes,
          reading \in DashReadings :
        LET out == insert_sensor_reading(table, Session, PreparedStatement,
                       device_id, timestamp, reading[1], reading[2], FALSE)
        IN  /\ Cardinality(out.table) <= MaxRows
            /\ out.table # table
            /\ table' = out.table
    /\ UNCHANGED <<call, ret, failed, contacts, old>>
    /\ UNCHANGED <<genVars, schemaVars, writers, dashVars>>

DashNext ==
    \/ Dash_GetDbSession
    \/ Dash_GetAllDevices
    \/ Dash_GetRecentReadings
    \/ Dash_GetAverageValue
    \/ Dash_Rerun
    \/ Generator_Insert

DashSpec == DashInit /\ [][DashNext]_vars

\* the statements of main that issue a query
DashQueries == {"get_all_devices", "get_recent_readings", "get_average_value"}

\* C25: every query a run of the dashboard issues is issued on a session
\* whose cluster has not been shut down.
C25_NoQueryOnClosedSession ==
    [][(pc \in DashQueries /\ pc' # pc) => handle = "open"]_vars

===========================================================================
